---- MODULE Spec2Model ----
(***************************************************************************)
(* Model of stock_tracker.py: a Streamlit script whose every run redraws   *)
(* the page and, when the India exchange is selected, starts one more      *)
(* daemon thread running run_indian_scheduler.  Each such thread registers *)
(* an hourly job in the process-wide registry of the schedule library and  *)
(* then polls schedule.run_pending() every 60 seconds.  A job is one call  *)
(* of check_indian_stocks(drop_threshold, gain_threshold).                 *)
(*                                                                         *)
(* Percentages are integers in tenths of a percent (-50 is -5.0 %).        *)
(* A time of day is the tuple <<hour, minute, second, microsecond>> of     *)
(* datetime.time, compared field by field as Python compares it.           *)
(***************************************************************************)
EXTENDS Integers, Sequences, FiniteSets, TLC

VARIABLES
    exchange,        \* st.radio "Select Exchange" as of the last script run
    drop_threshold,  \* module global of the last script run (line 70)
    gain_threshold,  \* module global of the last script run (line 71)
    india_cache,     \* st.cache_data entry of get_india_top50: <<>> or <<list>>
    jobs,            \* schedule's process-wide job list, in registration order
    threads,         \* the scheduler threads started so far
    ticks,           \* hours that have elapsed for some job (model counter)
    runs             \* script runs after the initial load (model counter)

vars == <<exchange, drop_threshold, gain_threshold, india_cache, jobs, threads,
          ticks, runs>>

----------------------------------------------------------------------------
(* Bounds of the model *)

\* script runs after the initial load
MaxRuns == 3
\* script runs that may start a scheduler thread
MaxThreads == 2
\* scheduler threads in the specifications SpecLean and SpecFair
MaxLeanThreads == 1
\* length of the ticker list the provider returns (the code cuts it at 50)
MaxTickers == 2
\* number of times an hour elapses for a registered job
MaxTicks == 2

----------------------------------------------------------------------------
(* Program constants *)

\* st.slider("Drop Alert Threshold (%)", -10.0, 0.0, -5.0, step=0.5)
DropMin == -100
DropMax == 0
DropDefault == -50
\* st.slider("Gain Alert Threshold (%)", 0.0, 10.0, 5.0, step=0.5)
GainMin == 0
GainMax == 100
GainDefault == 50

\* dt_time(9, 30) and dt_time(15, 30)
market_open == <<9, 30, 0, 0>>
market_close == <<15, 30, 0, 0>>

----------------------------------------------------------------------------
(* Inputs drawn by the environment *)

\* positions of the two sliders that the user chooses among
DropSamples == {DropDefault, DropMax}
GainSamples == {GainMin, GainDefault}

\* arguments of check_indian_stocks when it is taken as a function of any
\* pair of thresholds, dropPct > gainPct included
ArgSamples == {-50, 0, 50}

\* ((end_price - start_price) / start_price) * 100, in tenths of a percent
PctSamples == {-50, 0, 50}
FewPcts == {-51, 0}
LeanPcts == {0}

\* datetime.now(ist): weekday() is 0 for Monday ... 6 for Sunday
TimeSamples ==
    { <<0, 0, 0, 0>>, <<9, 29, 59, 0>>, <<9, 29, 59, 999999>>, <<9, 30, 0, 0>>,
      <<12, 0, 0, 0>>, <<15, 29, 59, 0>>, <<15, 30, 0, 0>>, <<15, 30, 0, 1>>,
      <<15, 30, 1, 0>>, <<23, 59, 59, 999999>> }
NowSamples == [weekday : {0, 5, 6}, time : TimeSamples]
FewNows == [weekday : {0, 6}, time : {<<12, 0, 0, 0>>}]
LeanNows == [weekday : {0}, time : {<<12, 0, 0, 0>>}]

\* what stock.history(...) does for one ticker
FetchOutcomes == {"error", "empty", "ok"}
\* what requests.post / st.write do inside send_telegram_message; with
\* "no_response" the server never answers and requests.post, which line 23
\* calls without a timeout, never returns
NotifyOutcomes == {"sent", "error_response", "raised", "raised_in_handler", "no_response"}
FewNotifies == {"sent"}
FewFetches == {"ok"}
\* what fetch_html / pd.read_html do inside get_india_top50 on a cache miss
ProviderOutcomes == {"ok", "no_table", "raised"}
LeanProviders == {"ok", "raised"}

NoNow == [weekday |-> 0, time |-> <<0, 0, 0, 0>>]

----------------------------------------------------------------------------
(* Pure parts of the code *)

\* datetime.time comparison a <= b: hour, minute, second, microsecond in turn
TimeLE(a, b) ==
    \/ a[1] < b[1]
    \/ a[1] = b[1] /\ a[2] < b[2]
    \/ a[1] = b[1] /\ a[2] = b[2] /\ a[3] < b[3]
    \/ a[1] = b[1] /\ a[2] = b[2] /\ a[3] = b[3] /\ a[4] <= b[4]

IsWeekendSundayOnly(now) == now.weekday > 5
\* line 164: now.weekday() >= 5
IsWeekend(now) == now.weekday >= 5

InTradingHoursOpenExclusive(now) ==
    ~TimeLE(now.time, market_open) /\ TimeLE(now.time, market_close)
\* line 168: market_open <= now.time() <= market_close
InTradingHours(now) == TimeLE(market_open, now.time) /\ TimeLE(now.time, market_close)

AfterGateNoHoursReturn(now) == IF IsWeekend(now) THEN "ret" ELSE "list"
\* lines 164-169: where check_indian_stocks goes after reading the clock:
\* "ret" is the return of the function, "list" is line 171
AfterGate(now) ==
    IF IsWeekend(now) THEN "ret"
    ELSE IF ~InTradingHours(now) THEN "ret"
    ELSE "list"

ClassifyStrict(pct_change, drop, gain) ==
    IF pct_change < drop THEN "DROP"
    ELSE IF pct_change > gain THEN "GAIN"
    ELSE "NONE"
ClassifyGainFirst(pct_change, drop, gain) ==
    IF pct_change >= gain THEN "GAIN"
    ELSE IF pct_change <= drop THEN "DROP"
    ELSE "NONE"
\* lines 181-186: which alert, if any, a percentage change produces
Classify(pct_change, drop, gain) ==
    IF pct_change <= drop THEN "DROP"
    ELSE IF pct_change >= gain THEN "GAIN"
    ELSE "NONE"

\* lines 19-25: TRUE when an exception leaves send_telegram_message. An error
\* response is a normal return of requests.post; an exception of requests.post
\* is caught and reported with st.write, and only an exception of that
\* st.write leaves the function.
send_telegram_message(outcome) == outcome = "raised_in_handler"

\* lines 173-188: the body of the loop for one ticker, as the record the
\* cycle's log keeps of it; raised says that an exception reached line 187
ProcessTicker(ticker, drop, gain, fetch, pct_change, notify) ==
    IF fetch = "error" THEN
        [ticker |-> ticker, fetch |-> "error", pct_change |-> 0,
         sent |-> <<>>, notify |-> "none", raised |-> TRUE]
    ELSE IF fetch = "empty" THEN
        [ticker |-> ticker, fetch |-> "empty", pct_change |-> 0,
         sent |-> <<>>, notify |-> "none", raised |-> FALSE]
    ELSE IF Classify(pct_change, drop, gain) = "NONE" THEN
        [ticker |-> ticker, fetch |-> "ok", pct_change |-> pct_change,
         sent |-> <<>>, notify |-> "none", raised |-> FALSE]
    ELSE
        [ticker |-> ticker, fetch |-> "ok", pct_change |-> pct_change,
         sent |-> <<Classify(pct_change, drop, gain)>>, notify |-> notify,
         raised |-> send_telegram_message(notify)]

LoopNextBreak(raised, k, n) == "ret"
LoopNextNoExcept(raised, k, n) ==
    IF raised THEN "dead" ELSE IF k < n THEN "poll" ELSE "ret"
LoopNextExceptOutsideLoop(raised, k, n) ==
    IF raised THEN "ret" ELSE IF k < n THEN "poll" ELSE "ret"
\* lines 172 and 187-188: after the k-th of n tickers the loop goes on to the
\* next ticker, or the function returns; "except: continue" makes an
\* exception in the body no different
LoopNext(raised, k, n) == IF k < n THEN "poll" ELSE "ret"

\* lines 42-62: get_india_top50 without its cache: the ticker list, or an
\* exception of fetch_html / pd.read_html
TickerList(n) == [k \in 1..n |-> k]
get_india_top50(outcome, n) ==
    IF outcome = "raised" THEN [raised |-> TRUE, value |-> <<>>]
    ELSE IF outcome = "no_table" THEN [raised |-> FALSE, value |-> <<>>]
    ELSE [raised |-> FALSE, value |-> TickerList(n)]

\* line 41: @st.cache_data: the stored value on a hit, else the call, whose
\* return value (not its exception) is stored
CachedCall(cache, outcome, n) ==
    IF cache # <<>> THEN [raised |-> FALSE, value |-> cache[1], cache |-> cache]
    ELSE IF get_india_top50(outcome, n).raised
         THEN [raised |-> TRUE, value |-> <<>>, cache |-> cache]
         ELSE [raised |-> FALSE, value |-> get_india_top50(outcome, n).value,
               cache |-> <<get_india_top50(outcome, n).value>>]

\* schedule.run_pending: the jobs whose should_run holds, collected up front
RECURSIVE RunnableFrom(_, _)
RunnableFrom(js, j) ==
    IF j > Len(js) THEN <<>>
    ELSE IF js[j].due THEN <<j>> \o RunnableFrom(js, j + 1)
    ELSE RunnableFrom(js, j + 1)
RunnableJobs(js) == RunnableFrom(js, 1)

----------------------------------------------------------------------------
(* State *)

\* a thread that is not inside check_indian_stocks; inside it, tickers_list is
\* <<>> until line 171 has assigned it and <<list>> from then on. alerted is
\* history, not program state: the tickers that completed cycles of the
\* thread have sent an alert for
Outside(pc, g_drop, g_gain, todo) ==
    [pc |-> pc, g_drop |-> g_drop, g_gain |-> g_gain, todo |-> todo,
     drop |-> 0, gain |-> 0, now |-> NoNow, tickers_list |-> <<>>, log |-> <<>>,
     alerted |-> {}]

Init ==
    /\ exchange = "US"
    /\ drop_threshold = DropDefault
    /\ gain_threshold = GainDefault
    /\ india_cache = <<>>
    /\ jobs = <<>>
    /\ threads = <<>>
    /\ ticks = 0
    /\ runs = 0

----------------------------------------------------------------------------
(* The foreground: one run of the script, lines 65-198 *)

ScriptRunAlways(e, d, g, outcome, n) ==
    /\ runs < MaxRuns
    /\ runs' = runs + 1
    /\ Cardinality({w \in {1, 2, 3} :
            \/ w = 1 /\ e # exchange
            \/ w = 2 /\ d # drop_threshold
            \/ w = 3 /\ g # gain_threshold}) <= 1
    /\ exchange' = e
    /\ drop_threshold' = d
    /\ gain_threshold' = g
    /\ UNCHANGED <<jobs, ticks>>
    /\ LET r == IF e = "US" THEN [cache |-> india_cache, raised |-> FALSE]
                ELSE CachedCall(india_cache, outcome, n) IN
        /\ india_cache' = r.cache
        /\ IF r.raised
           THEN UNCHANGED threads
           ELSE /\ Len(threads) < MaxThreads
                /\ threads' = Append(threads, Outside("start", d, g, <<>>))

\* a widget edit (or a plain rerun) runs the whole script with the widgets'
\* values e, d, g; one user interaction changes one widget
ScriptRun(e, d, g, outcome, n) ==
    /\ runs < MaxRuns
    /\ runs' = runs + 1
    /\ Cardinality({w \in {1, 2, 3} :
            \/ w = 1 /\ e # exchange
            \/ w = 2 /\ d # drop_threshold
            \/ w = 3 /\ g # gain_threshold}) <= 1
    /\ exchange' = e
    /\ drop_threshold' = d
    /\ gain_threshold' = g
    /\ UNCHANGED <<jobs, ticks>>
    /\ IF e = "US"
       THEN \* get_us_top50 and the display; no scheduler
            UNCHANGED <<india_cache, threads>>
       ELSE LET r == CachedCall(india_cache, outcome, n) IN
            /\ india_cache' = r.cache
            /\ IF r.raised
               THEN \* the exception of line 73 ends the run before line 198
                    UNCHANGED threads
               ELSE /\ Len(threads) < MaxThreads
                    /\ threads' = Append(threads, Outside("start", d, g, <<>>))

\* the "Clear cache" command of the Streamlit page empties st.cache_data
ClearCache ==
    /\ india_cache # <<>>
    /\ india_cache' = <<>>
    /\ UNCHANGED <<exchange, drop_threshold, gain_threshold, jobs, threads, ticks, runs>>

----------------------------------------------------------------------------
(* A scheduler thread: run_indian_scheduler, lines 190-194 *)

fg == <<exchange, drop_threshold, gain_threshold, runs>>

RegisterSwapped(t) ==
    /\ threads[t].pc = "start"
    /\ jobs' = Append(jobs, [drop_threshold |-> threads[t].g_gain,
                             gain_threshold |-> threads[t].g_drop,
                             due |-> FALSE])
    /\ threads' = [threads EXCEPT ![t].pc = "pending"]
    /\ UNCHANGED <<fg, india_cache, ticks>>

\* line 191: schedule.every(1).hours.do(check_indian_stocks, ...) with the
\* globals of the script run that started the thread
Register(t) ==
    /\ threads[t].pc = "start"
    /\ jobs' = Append(jobs, [drop_threshold |-> threads[t].g_drop,
                             gain_threshold |-> threads[t].g_gain,
                             due |-> FALSE])
    /\ threads' = [threads EXCEPT ![t].pc = "pending"]
    /\ UNCHANGED <<fg, india_cache, ticks>>

\* an hour has passed since job j was registered or last run
HourElapses(j) ==
    /\ ticks < MaxTicks
    /\ ~jobs[j].due
    /\ jobs' = [jobs EXCEPT ![j].due = TRUE]
    /\ ticks' = ticks + 1
    /\ UNCHANGED <<fg, india_cache, threads>>

\* the same hour passing, not counted: time does not stop
HourPasses(j) ==
    /\ ~jobs[j].due
    /\ jobs' = [jobs EXCEPT ![j].due = TRUE]
    /\ UNCHANGED <<fg, india_cache, threads, ticks>>

\* line 193 after line 194: time.sleep(60) is over and run_pending collects
\* the due jobs
RunPending(t) ==
    /\ threads[t].pc = "sleep"
    /\ threads' = [threads EXCEPT ![t].pc = "pending", ![t].todo = RunnableJobs(jobs)]
    /\ UNCHANGED <<fg, india_cache, jobs, ticks>>

\* run_pending has run every job it collected: line 194
Sleep(t) ==
    /\ threads[t].pc = "pending"
    /\ threads[t].todo = <<>>
    /\ threads' = [threads EXCEPT ![t].pc = "sleep"]
    /\ UNCHANGED <<fg, india_cache, jobs, ticks>>

GateTorn(t, now) ==
    /\ threads[t].pc = "pending"
    /\ threads[t].todo # <<>>
    /\ threads' = [threads EXCEPT
            ![t].pc = AfterGate(now),
            ![t].drop = jobs[threads[t].todo[1]].drop_threshold,
            ![t].gain = gain_threshold,
            ![t].now = now]
    /\ UNCHANGED <<fg, india_cache, jobs, ticks>>
\* run_pending calls the next collected job: lines 161-169
Gate(t, now) ==
    /\ threads[t].pc = "pending"
    /\ threads[t].todo # <<>>
    /\ threads' = [threads EXCEPT
            ![t].pc = AfterGate(now),
            ![t].drop = jobs[threads[t].todo[1]].drop_threshold,
            ![t].gain = jobs[threads[t].todo[1]].gain_threshold,
            ![t].now = now]
    /\ UNCHANGED <<fg, india_cache, jobs, ticks>>

\* line 171: tickers_list = get_india_top50(); an exception is caught neither
\* here nor by schedule nor by run_indian_scheduler, and ends the thread
GetList(t, outcome, n) ==
    /\ threads[t].pc = "list"
    /\ LET r == CachedCall(india_cache, outcome, n) IN
        /\ india_cache' = r.cache
        /\ threads' = [threads EXCEPT
                ![t].pc = IF r.raised THEN "dead" ELSE LoopNext(FALSE, 0, Len(r.value)),
                ![t].tickers_list = IF r.raised THEN <<>> ELSE <<r.value>>]
    /\ UNCHANGED <<fg, jobs, ticks>>

TickerDedup(t, fetch, pct_change, notify) ==
    /\ threads[t].pc = "poll"
    /\ LET th == threads[t]
           k == Len(th.log) + 1
           raw == ProcessTicker(th.tickers_list[1][k], th.drop, th.gain,
                                fetch, pct_change, notify)
           entry == IF raw.ticker \in th.alerted
                    THEN [raw EXCEPT !.sent = <<>>, !.notify = "none",
                                     !.raised = FALSE]
                    ELSE raw
       IN threads' = [threads EXCEPT
                ![t].log = Append(th.log, entry),
                ![t].pc = IF entry.notify = "no_response" THEN "post"
                          ELSE LoopNext(entry.raised, k, Len(th.tickers_list[1]))]
    /\ UNCHANGED <<fg, india_cache, jobs, ticks>>

\* lines 172-188: one iteration of the loop; "post" is line 23 inside a
\* requests.post that never returns
Ticker(t, fetch, pct_change, notify) ==
    /\ threads[t].pc = "poll"
    /\ LET th == threads[t]
           k == Len(th.log) + 1
           entry == ProcessTicker(th.tickers_list[1][k], th.drop, th.gain,
                                  fetch, pct_change, notify)
       IN threads' = [threads EXCEPT
                ![t].log = Append(th.log, entry),
                ![t].pc = IF entry.notify = "no_response" THEN "post"
                          ELSE LoopNext(entry.raised, k, Len(th.tickers_list[1]))]
    /\ UNCHANGED <<fg, india_cache, jobs, ticks>>

\* check_indian_stocks has returned: schedule sets the job's last_run and
\* next_run, and run_pending goes on with the jobs it collected
JobDone(t) ==
    /\ threads[t].pc = "ret"
    /\ jobs' = [jobs EXCEPT ![threads[t].todo[1]].due = FALSE]
    /\ threads' = [threads EXCEPT
            ![t] = [Outside("pending", threads[t].g_drop, threads[t].g_gain,
                            Tail(threads[t].todo))
                    EXCEPT !.alerted = threads[t].alerted \cup
                        {threads[t].log[k].ticker : k \in
                            {i \in 1..Len(threads[t].log) : threads[t].log[i].sent # <<>>}}]]
    /\ UNCHANGED <<fg, india_cache, ticks>>

----------------------------------------------------------------------------
(* Specifications *)

\* the steps of thread t in the loop of lines 192-194, with the clock
\* readings, list lengths, fetch outcomes, price changes and notification
\* outcomes the environment chooses among
LoopStep(t, Nows, Lens, Fetches, Pcts, Notifies) ==
    \/ RunPending(t)
    \/ Sleep(t)
    \/ \E now \in Nows : Gate(t, now)
    \/ \E outcome \in ProviderOutcomes, n \in Lens : GetList(t, outcome, n)
    \/ \E fetch \in Fetches, pct_change \in Pcts, notify \in Notifies :
            Ticker(t, fetch, pct_change, notify)
    \/ JobDone(t)

\* The application: script runs, cache, registry and all scheduler threads
Next ==
    \/ \E e \in {"US", "India"}, d \in DropSamples, g \in GainSamples,
          outcome \in ProviderOutcomes, n \in {MaxTickers} :
            ScriptRun(e, d, g, outcome, n)
    \/ ClearCache
    \/ \E j \in 1..Len(jobs) : HourElapses(j)
    \/ \E t \in 1..Len(threads) :
        \/ Register(t)
        \/ LoopStep(t, FewNows, {MaxTickers}, FewFetches, FewPcts, FewNotifies)

Spec == Init /\ [][Next]_vars

\* One scheduler thread in the state that a script run with India selected
\* and the sliders at d and g leaves behind once the thread has registered its
\* job, with a ticker list of any length in the cache
CycleInit(Drops, Gains) ==
    /\ exchange = "India"
    /\ \E d \in Drops, g \in Gains :
        /\ drop_threshold = d
        /\ gain_threshold = g
        /\ jobs = <<[drop_threshold |-> d, gain_threshold |-> g, due |-> FALSE]>>
        /\ threads = <<Outside("sleep", d, g, <<>>)>>
    /\ \E n \in 0..MaxTickers : india_cache = <<TickerList(n)>>
    /\ ticks = 0
    /\ runs = MaxRuns

NextCycle ==
    \/ \E j \in 1..Len(jobs) : HourElapses(j)
    \/ LoopStep(1, NowSamples, 1..MaxTickers, FetchOutcomes, PctSamples, NotifyOutcomes)

\* the cycles of a thread started with the sliders at their defaults
InitCycle == CycleInit({DropDefault}, {GainDefault})
SpecCycle == InitCycle /\ [][NextCycle]_vars

\* check_indian_stocks as a function of any pair of arguments, at noon of a
\* Monday or a Sunday, with every send answered
InitArgs == CycleInit(ArgSamples, ArgSamples)
NextArgs ==
    \/ \E j \in 1..Len(jobs) : HourElapses(j)
    \/ LoopStep(1, FewNows, 1..MaxTickers, FetchOutcomes, PctSamples, FewNotifies)
SpecArgs == InitArgs /\ [][NextArgs]_vars

\* The application with at most MaxLeanThreads scheduler threads, MaxTickers
\* tickers in the list whenever the provider answers, every cycle on a
\* weekday at noon, every fetch and every send answered, every price
\* unchanged over the day, and the cache never cleared
ThreadLean(t) ==
    /\ t <= Len(threads)
    /\ \/ Register(t)
       \/ LoopStep(t, LeanNows, {MaxTickers}, FewFetches, LeanPcts, FewNotifies)

ScriptRunLean ==
    \E e \in {"US", "India"}, d \in DropSamples, g \in GainSamples,
       outcome \in LeanProviders :
        /\ ScriptRun(e, d, g, outcome, MaxTickers)
        /\ Len(threads') <= MaxLeanThreads

NextLean ==
    \/ ScriptRunLean
    \/ \E j \in 1..Len(jobs) : HourElapses(j)
    \/ \E t \in 1..MaxLeanThreads : ThreadLean(t)

SpecLean == Init /\ [][NextLean]_vars

\* The same with hours that never stop passing, the operating system running
\* every thread that can run, and every hour that can pass passing
NextFair ==
    \/ ScriptRunLean
    \/ \E j \in 1..Len(jobs) : HourPasses(j)
    \/ \E t \in 1..MaxLeanThreads : ThreadLean(t)

SpecFair ==
    /\ Init
    /\ [][NextFair]_vars
    /\ \A t \in 1..MaxLeanThreads : WF_vars(ThreadLean(t))
    /\ WF_vars(\E j \in 1..Len(jobs) : HourPasses(j))

----------------------------------------------------------------------------
(* Properties *)

\* the threads that are inside a call of check_indian_stocks, or died in one
InCall(t) == threads[t].pc \in {"list", "poll", "post", "ret", "dead"}

\* the call of thread t got past the gate of lines 164-169 to line 171
PassedGate(t) == threads[t].pc \in {"list", "dead"} \/ threads[t].tickers_list # <<>>

\* seconds since midnight of a time of day
SecondOfDay(time) == (time[1] * 60 + time[2]) * 60 + time[3]
NineThirty == (9 * 60 + 30) * 60
FifteenThirty == (15 * 60 + 30) * 60

\* the alert condition of the claims on a log entry of thread t
Crosses(t, entry) ==
    /\ entry.fetch = "ok"
    /\ \/ entry.pct_change <= threads[t].drop
       \/ entry.pct_change >= threads[t].gain

\* the call of thread t has gone through its whole ticker list, in order
Complete(t) ==
    /\ threads[t].tickers_list # <<>>
    /\ Len(threads[t].log) = Len(threads[t].tickers_list[1])
    /\ \A j \in 1..Len(threads[t].log) :
            threads[t].log[j].ticker = threads[t].tickers_list[1][j]

\* C1: a cycle whose gate reports CLOSED (a weekend, or a time of day that
\* line 168 rejects) reads no ticker list, fetches nothing, notifies nobody
\* and has returned to the scheduler.
C1_ClosedGateIsNoOp ==
    \A t \in 1..Len(threads) :
        (InCall(t) /\ (IsWeekend(threads[t].now) \/ ~InTradingHours(threads[t].now)))
            => /\ threads[t].pc = "ret"
               /\ threads[t].tickers_list = <<>>
               /\ threads[t].log = <<>>

C1_Witness ==
    \E t \in 1..Len(threads) :
        /\ threads[t].pc = "ret"
        /\ ~IsWeekend(threads[t].now)
        /\ ~InTradingHours(threads[t].now)
        /\ india_cache = <<TickerList(MaxTickers)>>
        /\ threads[t].log = <<>>

\* C2: a ticker whose fetch raises or returns an empty window never ends the
\* cycle: the loop is still running on the tickers after it (or waiting in
\* the send of a later ticker), or the cycle has returned having fetched
\* every ticker of the list in list order.
C2_FetchFailureIsIsolated ==
    \A t \in 1..Len(threads) :
        \A k \in 1..Len(threads[t].log) :
            threads[t].log[k].fetch \in {"error", "empty"}
                => \/ /\ threads[t].pc = "poll"
                      /\ Len(threads[t].log) < Len(threads[t].tickers_list[1])
                   \/ /\ threads[t].pc = "post"
                      /\ k < Len(threads[t].log)
                   \/ /\ threads[t].pc = "ret"
                      /\ Complete(t)

C2_Witness ==
    \E t \in 1..Len(threads) :
        /\ threads[t].pc = "ret"
        /\ Len(threads[t].log) >= 2
        /\ threads[t].log[1].fetch = "error"
        /\ threads[t].log[2].fetch = "ok"
        /\ threads[t].log[2].sent # <<>>

\* C3: in one cycle the notifier is called once for a ticker that was fetched
\* with a non-empty window and a change at or beyond a threshold, and not at
\* all for any other ticker; every ticker of the list has at most one entry.
C3_OneAlertPerCrossingTicker ==
    \A t \in 1..Len(threads) :
        /\ threads[t].log # <<>> =>
                Len(threads[t].log) <= Len(threads[t].tickers_list[1])
        /\ \A k \in 1..Len(threads[t].log) :
            /\ threads[t].log[k].ticker = threads[t].tickers_list[1][k]
            /\ Len(threads[t].log[k].sent) =
                    IF Crosses(t, threads[t].log[k]) THEN 1 ELSE 0

C3_Witness ==
    \E t \in 1..Len(threads) :
        /\ threads[t].pc = "ret"
        /\ Len(threads[t].log) >= 2
        /\ threads[t].drop = DropDefault
        /\ threads[t].gain = GainDefault
        /\ threads[t].log[1].pct_change = DropDefault
        /\ threads[t].log[1].sent = <<"DROP">>
        /\ threads[t].log[2].fetch = "ok"
        /\ threads[t].log[2].pct_change = 0
        /\ threads[t].log[2].sent = <<>>

\* C4: for every pair of thresholds, dropPct > gainPct included, a change at
\* or below dropPct is alerted as DROP, and a GAIN alert is sent only for a
\* change above dropPct and at or above gainPct.
C4_DropPrecedence ==
    \A t \in 1..Len(threads) :
        \A k \in 1..Len(threads[t].log) :
            LET entry == threads[t].log[k] IN
            /\ (entry.fetch = "ok" /\ entry.pct_change <= threads[t].drop)
                    => entry.sent = <<"DROP">>
            /\ entry.sent = <<"GAIN">>
                    => /\ entry.pct_change > threads[t].drop
                       /\ entry.pct_change >= threads[t].gain

C4_Witness ==
    \E t \in 1..Len(threads) :
        \E k \in 1..Len(threads[t].log) :
            /\ threads[t].drop > threads[t].gain
            /\ threads[t].log[k].fetch = "ok"
            /\ threads[t].log[k].pct_change <= threads[t].drop
            /\ threads[t].log[k].pct_change >= threads[t].gain
            /\ threads[t].log[k].sent = <<"DROP">>

\* C5: on a weekday the gate is open at 15:29:59 and closed at 15:30:00 and
\* at every later time of day, so that a cycle at 15:30:00 fetches nothing.
C5_CloseIsExclusive ==
    \A t \in 1..Len(threads) :
        (InCall(t) /\ threads[t].now.weekday \in 0..4)
            => /\ threads[t].now.time = <<15, 29, 59, 0>> => PassedGate(t)
               /\ SecondOfDay(threads[t].now.time) >= FifteenThirty
                    => (~PassedGate(t) /\ threads[t].log = <<>>)

\* C6: on a weekday the gate is closed at every time of day before 09:30:00
\* and open at 09:30:00.
C6_OpenIsInclusive ==
    \A t \in 1..Len(threads) :
        (InCall(t) /\ threads[t].now.weekday \in 0..4)
            => /\ SecondOfDay(threads[t].now.time) < NineThirty
                    => (~PassedGate(t) /\ threads[t].log = <<>>)
               /\ threads[t].now.time = <<9, 30, 0, 0>> => PassedGate(t)

C6_Witness ==
    \E t \in 1..Len(threads) :
        /\ threads[t].now = [weekday |-> 0, time |-> <<9, 30, 0, 0>>]
        /\ threads[t].pc = "ret"
        /\ threads[t].log # <<>>

\* C7: on a Saturday or a Sunday the gate is closed at every time of day and
\* the cycle fetches nothing.
C7_WeekendIsClosed ==
    \A t \in 1..Len(threads) :
        (InCall(t) /\ threads[t].now.weekday \in {5, 6})
            => /\ ~PassedGate(t)
               /\ threads[t].log = <<>>

C7_Witness ==
    \E t \in 1..Len(threads) :
        /\ threads[t].pc = "ret"
        /\ threads[t].now = [weekday |-> 5, time |-> <<12, 0, 0, 0>>]
        /\ india_cache = <<TickerList(MaxTickers)>>
        /\ threads[t].log = <<>>

\* C8: a failed notification (an error response, an exception of the send, an
\* exception while reporting it) ends neither the cycle nor the thread: the
\* loop is still running on the tickers after it (or waiting in the send of a
\* later ticker), or the cycle has returned
\* having gone through the whole list, and every later ticker that crosses a
\* threshold has had its notifier call.
C8_NotifyFailureIsIsolated ==
    \A t \in 1..Len(threads) :
        \A k \in 1..Len(threads[t].log) :
            threads[t].log[k].notify \in {"error_response", "raised", "raised_in_handler"}
                => /\ \/ /\ threads[t].pc = "poll"
                         /\ Len(threads[t].log) < Len(threads[t].tickers_list[1])
                      \/ /\ threads[t].pc = "post"
                         /\ k < Len(threads[t].log)
                      \/ /\ threads[t].pc = "ret"
                         /\ Complete(t)
                   /\ \A j \in (k + 1)..Len(threads[t].log) :
                        Crosses(t, threads[t].log[j]) => Len(threads[t].log[j].sent) = 1

C8_Witness ==
    \E t \in 1..Len(threads) :
        /\ threads[t].pc = "ret"
        /\ Len(threads[t].log) >= 2
        /\ threads[t].log[1].notify = "raised_in_handler"
        /\ threads[t].log[2].sent # <<>>
        /\ threads[t].log[2].notify = "sent"

\* C9: a failure of the ticker-list provider while a cycle reads the list
\* leaves the scheduler alive: no scheduler thread ever terminates.
C9_ProviderFailureKeepsSchedulerAlive ==
    \A t \in 1..Len(threads) : threads[t].pc # "dead"

\* C10: at most one scheduler (thread and registered job) is running after
\* any sequence of script runs.
C10_AtMostOneScheduler ==
    /\ Cardinality({t \in 1..Len(threads) : threads[t].pc # "dead"}) <= 1
    /\ Len(jobs) <= 1

\* thread t is in a polling cycle that got past the gate
Polling(t) == threads[t].pc \in {"list", "poll", "post"}

\* thread t is in a polling cycle that has sent an alert
Alerting(t) ==
    /\ Polling(t) \/ threads[t].pc = "ret"
    /\ \E k \in 1..Len(threads[t].log) : threads[t].log[k].sent # <<>>

\* C11: once the user has switched to US for good, the schedulers of the
\* India selection stop: from some point on no thread sends an alert in a
\* polling cycle while US is selected.
C11_StaleSchedulerStops ==
    <>[](exchange = "US" => \A t \in 1..Len(threads) : ~Alerting(t))

\* C12: a polling cycle that starts after a slider edit classifies against
\* the edited pair: whenever a thread passes the market gate into a cycle,
\* the pair the cycle holds is the pair the sliders show at that moment.
C12_NextCycleUsesNewThresholds ==
    [][\A t \in 1..Len(threads) :
        (threads[t].pc = "pending" /\ threads'[t].pc = "list") =>
            /\ threads'[t].drop = drop_threshold
            /\ threads'[t].gain = gain_threshold]_vars

\* what a cycle with the pair (drop, gain) sends for the change pct_change
SentFor(pct_change, drop, gain) ==
    IF Classify(pct_change, drop, gain) = "NONE" THEN <<>>
    ELSE <<Classify(pct_change, drop, gain)>>

\* C13: a polling cycle keeps one pair of thresholds from its start to its
\* return and classifies every ticker against it, whatever the sliders do
\* meanwhile; the pair is the pair one script run read from the two sliders
\* together, handed unchanged to the thread that run started.
C13_OnePairPerCycle ==
    [][/\ \A t \in 1..Len(threads) :
            /\ threads'[t].g_drop = threads[t].g_drop
            /\ threads'[t].g_gain = threads[t].g_gain
            /\ (InCall(t) /\ InCall(t)') =>
                    /\ threads'[t].drop = threads[t].drop
                    /\ threads'[t].gain = threads[t].gain
            /\ (~InCall(t) /\ InCall(t)') =>
                    \E u \in 1..Len(threads) :
                        /\ threads'[t].drop = threads[u].g_drop
                        /\ threads'[t].gain = threads[u].g_gain
            /\ \A k \in 1..Len(threads'[t].log) :
                    threads'[t].log[k].fetch = "ok" =>
                        threads'[t].log[k].sent =
                            SentFor(threads'[t].log[k].pct_change,
                                    threads'[t].drop, threads'[t].gain)
       /\ \A t \in (Len(threads) + 1)..Len(threads') :
            /\ threads'[t].g_drop = drop_threshold'
            /\ threads'[t].g_gain = gain_threshold'
      ]_vars

\* a cycle has classified its whole list against its pair while the sliders
\* show another pair, under which a ticker would have been classified
\* differently
C13_Witness ==
    \E t \in 1..Len(threads) :
        /\ threads[t].pc = "ret"
        /\ Len(threads[t].log) = MaxTickers
        /\ <<threads[t].drop, threads[t].gain>> # <<drop_threshold, gain_threshold>>
        /\ \E k \in 1..Len(threads[t].log) :
                /\ threads[t].log[k].fetch = "ok"
                /\ threads[t].log[k].sent #
                        SentFor(threads[t].log[k].pct_change,
                                drop_threshold, gain_threshold)

\* line 198: the only thread target is run_indian_scheduler, so the live
\* schedulers of a market are the live threads for India and none for US
SchedulersOf(market) ==
    IF market = "India"
    THEN {t \in 1..Len(threads) : threads[t].pc # "dead"}
    ELSE {}

C15_SchedulerNeverStuck ==
    \A t \in 1..Len(threads) :
        ENABLED (\/ Register(t)
                 \/ LoopStep(t, FewNows, {MaxTickers}, FewFetches, FewPcts,
                             FewNotifies))

\* C16: a send to a channel that does not respond is abandoned: a thread
\* inside the requests.post of line 23 has a next step to take.
C16_NotifierNeverBlocks ==
    \A t \in 1..Len(threads) :
        threads[t].pc = "post" =>
            ENABLED LoopStep(t, NowSamples, {MaxTickers}, FetchOutcomes,
                             PctSamples, NotifyOutcomes)

\* C17: no deduplication: a ticker that an earlier cycle of the same thread
\* has alerted for, and whose change is at or beyond a threshold again, gets
\* its alert again.
C17_NoDeduplication ==
    \A t \in 1..Len(threads) :
        \A k \in 1..Len(threads[t].log) :
            (threads[t].log[k].ticker \in threads[t].alerted
                    /\ Crosses(t, threads[t].log[k]))
                => Len(threads[t].log[k].sent) = 1

C17_Witness ==
    \E t \in 1..Len(threads) :
        \E k \in 1..Len(threads[t].log) :
            /\ threads[t].log[k].ticker \in threads[t].alerted
            /\ threads[t].log[k].sent # <<>>
            /\ threads[t].log[k].notify = "sent"

\* C18: a cycle keeps the ticker list it read at line 171 until it returns;
\* each iteration handles exactly the next ticker of that list, fetch and
\* alert together, and leaves the earlier entries alone; when the function
\* returns from an open-market cycle, every ticker of the list has been
\* handled once, in list order.
C18_EachTickerOnceInOrder ==
    [][\A t \in 1..Len(threads) :
        /\ (threads[t].tickers_list # <<>> /\ threads'[t].pc # "pending") =>
                threads'[t].tickers_list = threads[t].tickers_list
        /\ (threads'[t].log # threads[t].log /\ threads'[t].log # <<>>) =>
                /\ Len(threads'[t].log) = Len(threads[t].log) + 1
                /\ SubSeq(threads'[t].log, 1, Len(threads[t].log)) = threads[t].log
                /\ threads'[t].log[Len(threads'[t].log)].ticker =
                        threads'[t].tickers_list[1][Len(threads'[t].log)]
        /\ (threads'[t].pc = "ret" /\ threads'[t].tickers_list # <<>>) =>
                Complete(t)'
      ]_vars

C18_Witness ==
    \E t \in 1..Len(threads) :
        /\ threads[t].pc = "ret"
        /\ Complete(t)
        /\ Len(threads[t].log) = MaxTickers
        /\ threads[t].log[1].notify = "sent"
        /\ threads[t].log[MaxTickers].fetch = "ok"

\* thread t is executing the job todo[1] that its run_pending collected
Running(t) == threads[t].pc \in {"list", "poll", "post", "ret"}

\* C19: a due job is executed by one thread only: no two threads are inside
\* the same job at once, both having sent an alert for the same ticker.
C19_OneExecutionPerDueTime ==
    \A t, u \in 1..Len(threads) :
        (t # u /\ Running(t) /\ Running(u)
               /\ threads[t].todo[1] = threads[u].todo[1])
            => \A k \in 1..Len(threads[t].log) :
                    ~ /\ k <= Len(threads[u].log)
                      /\ threads[t].log[k].sent # <<>>
                      /\ threads[u].log[k].sent # <<>>

\* the pair (drop, gain) lies within the ranges of the two sliders
WithinSliders(drop, gain) ==
    /\ DropMin <= drop
    /\ drop <= DropMax
    /\ DropMax <= GainMin
    /\ GainMin <= gain
    /\ gain <= GainMax

\* C20: the sliders, every registered job and every running cycle hold a
\* pair within the slider ranges, so drop <= 0 <= gain; a change that meets
\* both conditions of lines 181 and 184 is a change of 0 against the pair
\* (0, 0).
C20_ThresholdsWithinSliderBounds ==
    /\ WithinSliders(drop_threshold, gain_threshold)
    /\ \A t \in 1..Len(threads) :
            WithinSliders(threads[t].g_drop, threads[t].g_gain)
    /\ \A j \in 1..Len(jobs) :
            WithinSliders(jobs[j].drop_threshold, jobs[j].gain_threshold)
    /\ \A t \in 1..Len(threads) :
            Running(t) =>
                /\ WithinSliders(threads[t].drop, threads[t].gain)
                /\ \A k \in 1..Len(threads[t].log) :
                        (/\ threads[t].log[k].fetch = "ok"
                         /\ threads[t].log[k].pct_change <= threads[t].drop
                         /\ threads[t].log[k].pct_change >= threads[t].gain)
                            => /\ threads[t].drop = 0
                               /\ threads[t].gain = 0
                               /\ threads[t].log[k].pct_change = 0

\* both sliders at 0 and a ticker that has not moved: both conditions hold
\* and the DROP alert is the one sent
C20_Witness ==
    \E t \in 1..Len(threads) :
        /\ Running(t)
        /\ threads[t].drop = 0
        /\ threads[t].gain = 0
        /\ \E k \in 1..Len(threads[t].log) :
                /\ threads[t].log[k].pct_change = 0
                /\ threads[t].log[k].sent = <<"DROP">>

====
